---- MODULE Spec2Model ----
(***************************************************************************)
(* Model of the %terms line magic of term_magic.py (jupyter_helpers):      *)
(* request parsing, template resolution, block composition, the hand-over  *)
(* to the notebook front end and the status message; of the %cp_jup_temp   *)
(* magic with cptemp.py; and of the pipeline of dir_ipynb_to_md.py.        *)
(*                                                                         *)
(* Text is modelled as a sequence of atoms.  An atom is one character      *)
(* ("{", "}", ",", " ", "\n", "-", a digit) or an indivisible word made of *)
(* letters and digits ("Term", "Vector", "t4").  Python's str operations   *)
(* (strip, rstrip, split, join, lower, isdigit, int, re.sub) are modelled  *)
(* on these sequences.                                                     *)
(***************************************************************************)
EXTENDS Integers, Sequences, FiniteSets, TLC

VARIABLES
    yaml,       \* terms_template.yaml: whether it exists, and the mapping it holds
    pc,         \* "idle" before the magic runs, "done" after it returned or raised
    loc,        \* the local variables of terms() when it ended
    sink,       \* the texts handed to ip.set_next_input, in order
    printed,    \* the messages printed, in order
    outcome,    \* "none", "ok", "nothing" (count <= 0) or the exception raised
    rTemplate,  \* _render: the template argument
    rMapping,   \* _render: the mapping argument
    rOut,       \* _render: <<>> before the call, <<result>> after it
    args,       \* dir_ipynb_to_md: the command line and the notebooks under src
    runs,       \* dir_ipynb_to_md: the steps started so far and how each ended
    cp,         \* cp_jup_temp: the line, and what cptemp will find on the disk
    files       \* cp_jup_temp: the notebooks cptemp has copied into the target

vars ==
    <<yaml, pc, loc, sink, printed, outcome, rTemplate, rMapping, rOut,
      args, runs, cp, files>>

(***************************************************************************)
(* Bounds of the model.                                                    *)
(***************************************************************************)
\* the longest template (in atoms) given to _render on its own
MaxTemplateLen == 6
\* the largest repeat count a request asks for
MaxCount == 2
\* the longest subject list a request gives
MaxSubjects == 2
\* the most keys the template resource holds
MaxKeys == 2
\* the most notebooks the pipeline finds under its destination
MaxNotebooks == 2

(***************************************************************************)
(* Python str helpers.                                                     *)
(***************************************************************************)
\* str.isspace() of one character
IsSpace(a) == a \in {" ", "\n", "\t"}

RECURSIVE lstrip(_)
lstrip(s) ==
    IF s = <<>> THEN <<>>
    ELSE IF IsSpace(Head(s)) THEN lstrip(Tail(s)) ELSE s

RECURSIVE rstrip(_)
rstrip(s) ==
    IF s = <<>> THEN <<>>
    ELSE IF IsSpace(s[Len(s)]) THEN rstrip(SubSeq(s, 1, Len(s) - 1)) ELSE s

strip(s) == lstrip(rstrip(s))

\* sep.join(parts)
RECURSIVE join(_, _)
join(sep, parts) ==
    IF parts = <<>> THEN <<>>
    ELSE IF Len(parts) = 1 THEN parts[1]
    ELSE parts[1] \o sep \o join(sep, Tail(parts))

NL == <<"\n">>

(***************************************************************************)
(* _render: re.sub(r"\{\{\s*([^\}]+)\s*\}\}", repl, template).             *)
(***************************************************************************)
\* the first index >= i of a "}" in t, or 0 when there is none
RECURSIVE FirstClose(_, _)
FirstClose(t, i) ==
    IF i > Len(t) THEN 0
    ELSE IF t[i] = "}" THEN i ELSE FirstClose(t, i + 1)

\* The index of the last atom of the regex match that starts at i, or 0 when the
\* regex does not match at i.  After "{{" the three middle terms \s*, [^\}]+, \s*
\* match no "}", so the closing "}}" starts at the first "}" after the opening;
\* [^\}]+ needs at least one atom before it.
MatchEnd(t, i) ==
    IF i + 1 <= Len(t) /\ t[i] = "{" /\ t[i + 1] = "{"
    THEN LET j == FirstClose(t, i + 2)
         IN  IF j >= i + 3 /\ j + 1 <= Len(t) /\ t[j + 1] = "}" THEN j + 1 ELSE 0
    ELSE 0

\* a mutation of Braced: the braces of the f-string are escaped once too often
Braced_triple(key) == <<"{", "{", "{">> \o key \o <<"}", "}", "}">>

Braced(key) == <<"{", "{">> \o key \o <<"}", "}">>

\* repl(match): group is match.group(1) together with the whitespace \s* gave up
repl(mapping, group) ==
    LET key == strip(group)
    IN  IF key \in DOMAIN mapping THEN mapping[key] ELSE Braced(key)

RECURSIVE RenderFrom(_, _, _)
RenderFrom(t, mapping, i) ==
    IF i > Len(t) THEN <<>>
    ELSE LET e == MatchEnd(t, i)
         IN  IF e = 0
             THEN <<t[i]>> \o RenderFrom(t, mapping, i + 1)
             ELSE repl(mapping, SubSeq(t, i + 2, e - 2)) \o RenderFrom(t, mapping, e + 1)

\* a mutation of render: the text is scanned again after the replacements
render_rescan(template, mapping) == RenderFrom(RenderFrom(template, mapping, 1), mapping, 1)

render(template, mapping) == RenderFrom(template, mapping, 1)

(***************************************************************************)
(* Mappings (YAML mappings, Python dicts) are sequences of [k, v] pairs in *)
(* insertion order.  A value is a string, a nested mapping or null.        *)
(***************************************************************************)
Str(text) == [type |-> "str", text |-> text, sect |-> <<>>]
Dict(sect) == [type |-> "dict", text |-> <<>>, sect |-> sect]
None == [type |-> "null", text |-> <<>>, sect |-> <<>>]

\* k in d
Has(d, k) == \E i \in DOMAIN d : d[i].k = k
\* d.get(k): None when k is absent
Get(d, k) == IF Has(d, k) THEN d[CHOOSE i \in DOMAIN d : d[i].k = k].v ELSE None
\* isinstance(v, str), isinstance(v, dict)
IsStr(v) == v.type = "str"
IsDict(v) == v.type = "dict"

\* [p for p in (d.get(sect) for sect in order) if isinstance(p, str)]
RECURSIVE StrParts(_, _)
StrParts(d, order) ==
    IF order = <<>> THEN <<>>
    ELSE LET val == Get(d, Head(order))
         IN  (IF IsStr(val) THEN <<val.text>> ELSE <<>>) \o StrParts(d, Tail(order))

(***************************************************************************)
(* _load_terms_yaml: raises FileNotFoundError when the file is missing.    *)
(***************************************************************************)
\* file is [exists, data]: data is what yaml.safe_load(f) or {} gives
load_terms_yaml(file) ==
    IF ~file.exists
    THEN [ok |-> FALSE, data |-> <<>>]
    ELSE [ok |-> TRUE, data |-> file.data]

(***************************************************************************)
(* _select_template_block                                                  *)
(***************************************************************************)
order_term_all == <<"h", "ex", "n", "tc", "fo">>
order_diagram_all == <<"h2", "di", "n2", "ex2", "tc2", "fo2">>
order_tree_all == <<"trh", "trd", "trp", "tra", "tree", "trt", "trf">>

\* order_map.get(key_hint, [])
order_map(key_hint) ==
    CASE key_hint = "template_term" -> order_term_all
      [] key_hint = "template_diagram" -> order_diagram_all
      [] key_hint = "template_tree" -> order_tree_all
      [] OTHER -> <<>>

Resolved(text, via) == [ok |-> TRUE, error |-> "", template_str |-> text, via |-> via]
Raised(error) == [ok |-> FALSE, error |-> error, template_str |-> <<>>, via |-> "none"]

\* the first string value of the mapping, in its order
RECURSIVE FirstStr(_)
FirstStr(d) ==
    IF d = <<>> THEN None
    ELSE IF IsStr(Head(d).v) THEN Head(d).v ELSE FirstStr(Tail(d))

\* key_hint "" stands for None.  via records which rule produced the template:
\* "flat" (a string found by key), the family whose sections were stitched, or
\* "first" (the first string value of the mapping).
select_template_block(data, key_hint) ==
    LET hinted == key_hint # "" /\ IsStr(Get(data, key_hint))
        hintParts == IF key_hint # "" /\ IsDict(Get(data, key_hint))
                     THEN StrParts(Get(data, key_hint).sect, order_map(key_hint))
                     ELSE <<>>
        termParts == IF IsDict(Get(data, "template_term"))
                     THEN StrParts(Get(data, "template_term").sect, order_term_all)
                     ELSE <<>>
        diagParts == IF IsDict(Get(data, "template_diagram"))
                     THEN StrParts(Get(data, "template_diagram").sect, order_diagram_all)
                     ELSE <<>>
        treeParts == IF IsDict(Get(data, "template_tree"))
                     THEN StrParts(Get(data, "template_tree").sect, order_tree_all)
                     ELSE <<>>
    IN  IF hinted THEN Resolved(Get(data, key_hint).text, "flat")
        ELSE IF IsStr(Get(data, "template")) THEN Resolved(Get(data, "template").text, "flat")
        ELSE IF hintParts # <<>> THEN Resolved(join(NL, hintParts), key_hint)
        ELSE IF termParts # <<>> THEN Resolved(join(NL, termParts), "template_term")
        ELSE IF diagParts # <<>> THEN Resolved(join(NL, diagParts), "template_diagram")
        ELSE IF treeParts # <<>> THEN Resolved(join(NL, treeParts), "template_tree")
        ELSE IF IsStr(FirstStr(data)) THEN Resolved(FirstStr(data).text, "first")
        ELSE Raised("No string templates found")

(***************************************************************************)
(* _select_template_section                                                *)
(***************************************************************************)
term_sections == {"h", "ex", "n", "fo", "tc"}
diagram_sections == {"h2", "di", "n2", "ex2", "fo2", "tc2"}
tree_sections == {"trh", "trd", "trp", "tra", "tree", "trt", "trf"}

\* a mutation of select_template_section: a section that is not found falls back
\* to the template of the library instead of raising
select_template_section_fallback(data, section) ==
    LET tt == Get(data, "template_term")
        td == Get(data, "template_diagram")
        ttree == Get(data, "template_tree")
    IN  IF IsDict(tt) /\ section \in {"h", "ex", "n", "fo", "tc"}
           /\ IsStr(Get(tt.sect, section))
        THEN Resolved(Get(tt.sect, section).text, "section")
        ELSE IF IsDict(td) /\ section \in {"h2", "di", "n2", "ex2", "fo2", "tc2"}
                /\ IsStr(Get(td.sect, section))
        THEN Resolved(Get(td.sect, section).text, "section")
        ELSE IF IsDict(ttree)
                /\ section \in {"trh", "trd", "trp", "tra", "tree", "trt", "trf"}
                /\ IsStr(Get(ttree.sect, section))
        THEN Resolved(Get(ttree.sect, section).text, "section")
        ELSE select_template_block(data, "")

select_template_section(data, section) ==
    LET tt == Get(data, "template_term")
        td == Get(data, "template_diagram")
        ttree == Get(data, "template_tree")
    IN  IF IsDict(tt) /\ section \in term_sections /\ IsStr(Get(tt.sect, section))
        THEN Resolved(Get(tt.sect, section).text, "section")
        ELSE IF IsDict(td) /\ section \in diagram_sections /\ IsStr(Get(td.sect, section))
        THEN Resolved(Get(td.sect, section).text, "section")
        ELSE IF IsDict(ttree) /\ section \in tree_sections /\ IsStr(Get(ttree.sect, section))
        THEN Resolved(Get(ttree.sect, section).text, "section")
        ELSE Raised("Section not found")

(***************************************************************************)
(* Request parsing: str.split, str.lower, str.isdigit, int.                *)
(***************************************************************************)
\* the length of the longest prefix of s without whitespace
RECURSIVE WordLen(_)
WordLen(s) ==
    IF s = <<>> \/ IsSpace(Head(s)) THEN 0 ELSE 1 + WordLen(Tail(s))

\* s.split()
RECURSIVE split_ws(_)
split_ws(s) ==
    LET t == lstrip(s)
        n == WordLen(t)
    IN  IF t = <<>> THEN <<>>
        ELSE <<SubSeq(t, 1, n)>> \o split_ws(SubSeq(t, n + 1, Len(t)))

\* s.split(maxsplit=1)
split_maxsplit1(s) ==
    LET t == lstrip(s)
        n == WordLen(t)
        more == lstrip(SubSeq(t, n + 1, Len(t)))
    IN  IF t = <<>> THEN <<>>
        ELSE IF more = <<>> THEN <<SubSeq(t, 1, n)>>
        ELSE <<SubSeq(t, 1, n), more>>

\* s.split(",")
RECURSIVE split_comma(_)
split_comma(s) ==
    LET hits == {i \in DOMAIN s : s[i] = ","}
    IN  IF hits = {} THEN <<s>>
        ELSE LET i == CHOOSE x \in hits : \A y \in hits : x <= y
             IN  <<SubSeq(s, 1, i - 1)>> \o split_comma(SubSeq(s, i + 1, Len(s)))

\* lower() of one word: the words of the model that hold an upper-case letter
lower_atom(a) ==
    CASE a = "TC" -> "tc"
      [] a = "T4" -> "t4"
      [] a = "H" -> "h"
      [] a = "Vector" -> "vector"
      [] a = "Matrix" -> "matrix"
      [] a = "Graph" -> "graph"
      [] a = "Tree" -> "tree"
      [] a = "Red" -> "red"
      [] a = "Black" -> "black"
      [] OTHER -> a

\* s.lower()
lower(s) == [i \in DOMAIN s |-> lower_atom(s[i])]

Digits == <<"0", "1", "2", "3", "4", "5", "6", "7", "8", "9">>
\* characters that str.isdigit() accepts and int() rejects (superscript digits)
SuperDigits == {"²"}
\* a decimal digit: what int() reads
IsDecimal(a) == \E d \in DOMAIN Digits : Digits[d] = a
\* str.isdigit() of one character
IsDigit(a) == IsDecimal(a) \/ a \in SuperDigits
DigitVal(a) == (CHOOSE d \in DOMAIN Digits : Digits[d] = a) - 1

\* s.isdigit(): non-empty and digits only
isdigit(s) == s # <<>> /\ \A i \in DOMAIN s : IsDigit(s[i])

\* int(s) raises ValueError: s holds a character that is no decimal digit
int_raises(s) == \E i \in DOMAIN s : ~IsDecimal(s[i])

\* int(s) of a string of decimal digits
RECURSIVE int(_)
int(s) ==
    IF s = <<>> THEN 0 ELSE 10 * int(SubSeq(s, 1, Len(s) - 1)) + DigitVal(s[Len(s)])

\* tmpl_key_map; "" stands for None
tmpl_keys == {"t1", "t2", "t3", "t4", "t5"}
tmpl_key_map(head) ==
    CASE head = "t1" -> ""
      [] head = "t2" -> "template_math"
      [] head = "t3" -> "template_func"
      [] head = "t4" -> "template_diagram"
      [] head = "t5" -> "template_tree"

section_keys ==
    {"h", "ex", "n", "fo",
     "h2", "di", "n2", "ex2", "fo2",
     "trh", "trd", "trp", "tra", "tree", "trt", "trf"}

\* lines 292-323: head and rest.  A word of several atoms is no key.
parse_head(line0) ==
    LET line == strip(line0)
        parts == split_maxsplit1(line)
        head == IF parts # <<>> /\ Len(parts[1]) = 1 THEN lower(parts[1])[1] ELSE ""
        tail == IF Len(parts) > 1 THEN strip(parts[2]) ELSE <<>>
    IN  IF parts = <<>>
        THEN [section_hint |-> "", key_hint |-> "", rest |-> <<>>]
        ELSE IF head \in section_keys
        THEN [section_hint |-> head, key_hint |-> "", rest |-> tail]
        ELSE IF head \in tmpl_keys
        THEN [section_hint |-> "", key_hint |-> tmpl_key_map(head), rest |-> tail]
        ELSE [section_hint |-> "", key_hint |-> "", rest |-> line]

\* lines 327-337: the trailing toggle
parse_toggle(rest) ==
    LET ws_parts == split_ws(rest)
    IN  IF rest # <<>> /\ ws_parts # <<>> /\ lower(ws_parts[Len(ws_parts)]) = <<"tc">>
        THEN [include_tc_term |-> TRUE,
              rest_wo_toggle |->
                  strip(join(<<" ">>, SubSeq(ws_parts, 1, Len(ws_parts) - 1)))]
        ELSE [include_tc_term |-> FALSE, rest_wo_toggle |-> rest]

\* [t.strip() for t in pieces if t.strip()]
RECURSIVE StripNonEmpty(_)
StripNonEmpty(pieces) ==
    IF pieces = <<>> THEN <<>>
    ELSE (IF strip(Head(pieces)) # <<>> THEN <<strip(Head(pieces))>> ELSE <<>>)
         \o StripNonEmpty(Tail(pieces))

\* lines 339-348: terms or count; nothing: the early return of count <= 0;
\* raised: the ValueError of int()
parse_count(rest_wo_toggle) ==
    IF isdigit(rest_wo_toggle)
    THEN IF int_raises(rest_wo_toggle)
         THEN [raised |-> TRUE, nothing |-> FALSE, count |-> 0, terms_list |-> <<>>]
         ELSE [raised |-> FALSE,
               nothing |-> int(rest_wo_toggle) <= 0,
               count |-> int(rest_wo_toggle),
               terms_list |-> <<>>]
    ELSE LET terms_list == StripNonEmpty(split_comma(rest_wo_toggle))
         IN  [raised |-> FALSE,
              nothing |-> FALSE,
              count |-> IF terms_list = <<>> THEN 1 ELSE 0,
              terms_list |-> terms_list]
(***************************************************************************)
(* terms(), lines 350-395: the template of the request.                    *)
(***************************************************************************)
\* order.index(foot)
IndexOf(order, x) == CHOOSE i \in DOMAIN order : order[i] = x

\* order[:insert_idx] + [opt] + order[insert_idx:], insert_idx the footer's index
insert_before(order, foot, opt) ==
    LET n == IF \E i \in DOMAIN order : order[i] = foot
             THEN IndexOf(order, foot) - 1
             ELSE Len(order)
    IN  SubSeq(order, 1, n) \o <<opt>> \o SubSeq(order, n + 1, Len(order))

order_term == <<"h", "ex", "n", "fo">>
order_diagram == <<"h2", "di", "n2", "ex2", "fo2">>
order_tree == <<"trh", "trd", "trp", "tra", "tree", "trf">>

\* str(p) of a section's value
RECURSIVE StrOfParts(_, _)
StrOfParts(d, order) ==
    IF order = <<>> THEN <<>>
    ELSE LET val == Get(d, Head(order))
         IN  <<IF IsStr(val) THEN val.text ELSE <<"None">>>> \o StrOfParts(d, Tail(order))

\* a mutation of term_template: the values that are no strings are not dropped
term_template_unfiltered(data, include_tc_term) ==
    LET sect == Get(data, "template_term").sect
        order == IF include_tc_term /\ Has(sect, "tc")
                 THEN insert_before(order_term, "fo", "tc")
                 ELSE order_term
    IN  Resolved(join(NL, StrOfParts(sect, order)), "template_term")

\* lines 359-368
term_template(data, include_tc_term) ==
    LET sect == Get(data, "template_term").sect
        order == IF include_tc_term /\ Has(sect, "tc")
                 THEN insert_before(order_term, "fo", "tc")
                 ELSE order_term
        parts_tm == StrParts(sect, order)
    IN  IF parts_tm = <<>>
        THEN Raised("template_term is empty or missing sections")
        ELSE Resolved(join(NL, parts_tm), "template_term")

\* a mutation of diagram_template: tc2 is appended after the footer
diagram_template_after(data) ==
    LET sect == Get(data, "template_diagram").sect
        order == IF Has(sect, "tc2") THEN order_diagram \o <<"tc2">> ELSE order_diagram
        parts_td == StrParts(sect, order)
    IN  IF parts_td = <<>>
        THEN Raised("template_diagram is empty or missing sections")
        ELSE Resolved(join(NL, parts_td), "template_diagram")

\* a mutation of diagram_template: without string sections the request falls
\* back to the other templates of the library
diagram_template_fallback(data) ==
    LET sect == Get(data, "template_diagram").sect
        order == IF Has(sect, "tc2")
                 THEN insert_before(order_diagram, "fo2", "tc2")
                 ELSE order_diagram
        parts_td == StrParts(sect, order)
    IN  IF parts_td = <<>>
        THEN select_template_block(data, "template_diagram")
        ELSE Resolved(join(NL, parts_td), "template_diagram")

\* lines 370-380
diagram_template(data) ==
    LET sect == Get(data, "template_diagram").sect
        order == IF Has(sect, "tc2")
                 THEN insert_before(order_diagram, "fo2", "tc2")
                 ELSE order_diagram
        parts_td == StrParts(sect, order)
    IN  IF parts_td = <<>>
        THEN Raised("template_diagram is empty or missing sections")
        ELSE Resolved(join(NL, parts_td), "template_diagram")

\* lines 382-392
tree_template(data) ==
    LET sect == Get(data, "template_tree").sect
        order == IF Has(sect, "trt")
                 THEN insert_before(order_tree, "trf", "trt")
                 ELSE order_tree
        parts_ttree == StrParts(sect, order)
    IN  IF parts_ttree = <<>>
        THEN Raised("template_tree is empty or missing sections")
        ELSE Resolved(join(NL, parts_ttree), "template_tree")

\* lines 355-356: the default family when the library has no 'template'
default_key_hint(data, key_hint) ==
    IF key_hint = "" /\ ~Has(data, "template") /\ Has(data, "template_term")
    THEN "template_term"
    ELSE key_hint

\* lines 350-395; the result carries active_template beside the template
resolve(data, section_hint, key_hint0, include_tc_term) ==
    IF section_hint # ""
    THEN [res |-> select_template_section(data, section_hint),
          active_template |-> "section", key_hint |-> key_hint0]
    ELSE LET key_hint == default_key_hint(data, key_hint0)
             active_template == IF key_hint # "" THEN key_hint ELSE "template"
             res ==
                 IF active_template = "template_term" /\ IsDict(Get(data, "template_term"))
                 THEN term_template(data, include_tc_term)
                 ELSE IF active_template = "template_diagram"
                         /\ IsDict(Get(data, "template_diagram"))
                 THEN diagram_template(data)
                 ELSE IF active_template = "template_tree"
                         /\ IsDict(Get(data, "template_tree"))
                 THEN tree_template(data)
                 ELSE select_template_block(data, key_hint)
         IN  [res |-> res, active_template |-> active_template, key_hint |-> key_hint]

(***************************************************************************)
(* terms(), lines 397-446: the blocks and the final text.                  *)
(***************************************************************************)
BlankKeys ==
    {<<"Term">>, <<"FunctionName">>, <<"ModulePath">>, <<"Description">>,
     <<"CodeExample">>, <<"Code/ML", " ", "Example">>, <<"Code/ML", " ", "Definition">>,
     <<"Math", " ", "Definition">>, <<"Statistics", " ", "Definition">>, <<"Diagram">>,
     <<"Note1">>, <<"Note2">>, <<"MethodName">>, <<"MethodSignature">>,
     <<"MethodDescription">>, <<"ExampleCode">>, <<"Default1">>, <<"Default2">>,
     <<"Param1">>, <<"Param2">>, <<"Param3">>, <<"Param4">>, <<"Param5">>,
     <<"Definition1">>, <<"Definition2">>, <<"AverageCase">>, <<"WorstCase">>,
     <<"AverageName">>, <<"WorstName">>, <<"AverageSlug">>, <<"WorstSlug">>,
     <<"TypeDistinguishingExample">>, <<"TypeContradistinguishingExample">>}

\* _blank_mapping()
blank_mapping == [key \in BlankKeys |-> Braced(key)]

\* a mutation of term_mapping: the update forgets "FunctionName"
term_mapping_term_only(term) ==
    [key \in BlankKeys |-> IF key = <<"Term">> THEN term ELSE blank_mapping[key]]

\* mapping.update({"Term": term, "FunctionName": term})
term_mapping(term) ==
    [key \in BlankKeys |->
        IF key \in {<<"Term">>, <<"FunctionName">>} THEN term ELSE blank_mapping[key]]

\* a mutation of make_blocks: the repeat count is ignored, one blank block is made
make_blocks_once(template_str, terms_list, count) ==
    IF terms_list # <<>>
    THEN [i \in 1..Len(terms_list) |->
             rstrip(render(template_str, term_mapping(terms_list[i])))]
    ELSE <<rstrip(render(template_str, blank_mapping))>>

\* lines 435-443
make_blocks(template_str, terms_list, count) ==
    IF terms_list # <<>>
    THEN [i \in 1..Len(terms_list) |->
             rstrip(render(template_str, term_mapping(terms_list[i])))]
    ELSE [i \in 1..count |-> rstrip(render(template_str, blank_mapping))]

\* a mutation of final_text: one newline between the blocks
final_text_single(blocks) == join(<<"\n">>, blocks)

\* line 445
final_text(blocks) == join(<<"\n", "\n">>, blocks)

(***************************************************************************)
(* terms(), lines 448-456: the status message.                             *)
(***************************************************************************)
\* opt in data.get(family, {}): a key of a mapping, a substring of a string (an
\* atom of it here), a TypeError on null
opt_in_family(data, family, opt) ==
    LET v == Get(data, family)
    IN  IF ~Has(data, family) THEN [ok |-> TRUE, found |-> FALSE]
        ELSE IF IsDict(v) THEN [ok |-> TRUE, found |-> Has(v.sect, opt)]
        ELSE IF IsStr(v)
        THEN [ok |-> TRUE, found |-> \E i \in DOMAIN v.text : v.text[i] = opt]
        ELSE [ok |-> FALSE, found |-> FALSE]

status(data, active_template, include_tc_term) ==
    IF active_template = "template_term" /\ include_tc_term
    THEN [ok |-> TRUE, tc_msg |-> " with tc"]
    ELSE IF active_template = "template_diagram"
    THEN LET r == opt_in_family(data, "template_diagram", "tc2")
         IN  [ok |-> r.ok, tc_msg |-> IF r.found THEN " with tc2" ELSE ""]
    ELSE IF active_template = "template_tree"
    THEN LET r == opt_in_family(data, "template_tree", "trt")
         IN  [ok |-> r.ok, tc_msg |-> IF r.found THEN " with trt" ELSE ""]
    ELSE [ok |-> TRUE, tc_msg |-> ""]
(***************************************************************************)
(* terms(line): the whole magic.  The result holds how it ended, its local *)
(* variables, the texts it handed to the sink and what it printed.         *)
(***************************************************************************)
NoLocals ==
    [line |-> <<>>, section_hint |-> "", key_hint |-> "", include_tc_term |-> FALSE,
     rest_wo_toggle |-> <<>>, terms_list |-> <<>>, count |-> 0,
     active_template |-> "", template_str |-> <<>>, via |-> "none", error |-> "",
     blocks |-> <<>>]

Inserted(n, tc_msg) == [kind |-> "inserted", n |-> n, tc_msg |-> tc_msg]
NothingToInsert == [kind |-> "nothing", n |-> 0, tc_msg |-> ""]

Ended(outcome0, sink0, printed0, loc0) ==
    [outcome |-> outcome0, sink |-> sink0, printed |-> printed0, loc |-> loc0]

\* lines 446-456: the hand-over to the sink, then the status message
terms_insert(resolved, blocks, st) ==
    IF ~st.ok
    THEN Ended("TypeError", <<final_text(blocks)>>, <<>>,
               [resolved EXCEPT !.blocks = blocks,
                   !.error = "argument of type 'NoneType' is not iterable"])
    ELSE Ended("ok", <<final_text(blocks)>>, <<Inserted(Len(blocks), st.tc_msg)>>,
               [resolved EXCEPT !.blocks = blocks])

\* lines 397-456
terms_compose(resolved, data) ==
    terms_insert(resolved,
                 make_blocks(resolved.template_str, resolved.terms_list, resolved.count),
                 status(data, resolved.active_template, resolved.include_tc_term))

\* lines 350-456: rs is the template of the request, or the ValueError raised
terms_resolved(parsed, data, rs) ==
    IF ~rs.res.ok
    THEN Ended("ValueError", <<>>, <<>>,
               [parsed EXCEPT !.key_hint = rs.key_hint,
                   !.active_template = rs.active_template, !.error = rs.res.error])
    ELSE terms_compose([parsed EXCEPT !.key_hint = rs.key_hint,
                           !.active_template = rs.active_template,
                           !.template_str = rs.res.template_str, !.via = rs.res.via],
                       data)

\* lines 339-456: pcnt is the parsed count or subject list
terms_counted(parsed, data, pcnt) ==
    IF pcnt.raised
    THEN Ended("ValueError", <<>>, <<>>,
               [parsed EXCEPT !.error = "invalid literal for int() with base 10"])
    ELSE IF pcnt.nothing
    THEN Ended("nothing", <<>>, <<NothingToInsert>>,
               [parsed EXCEPT !.terms_list = pcnt.terms_list, !.count = pcnt.count])
    ELSE terms_resolved([parsed EXCEPT !.terms_list = pcnt.terms_list,
                            !.count = pcnt.count],
                        data,
                        resolve(data, parsed.section_hint, parsed.key_hint,
                                parsed.include_tc_term))

\* lines 327-456: tg is the parsed toggle
terms_toggled(parsed, data, tg) ==
    terms_counted([parsed EXCEPT !.include_tc_term = tg.include_tc_term,
                      !.rest_wo_toggle = tg.rest_wo_toggle],
                  data, parse_count(tg.rest_wo_toggle))

\* lines 325-456: loaded is what _load_terms_yaml gave, or its FileNotFoundError
terms_loaded(parsed, rest, loaded) ==
    IF ~loaded.ok
    THEN Ended("FileNotFoundError", <<>>, <<>>,
               [parsed EXCEPT !.error = "terms_template.yaml not found"])
    ELSE terms_toggled(parsed, loaded.data, parse_toggle(rest))

\* lines 292-456: h is the parsed head
terms_headed(file, line, h) ==
    terms_loaded([NoLocals EXCEPT !.line = line, !.section_hint = h.section_hint,
                     !.key_hint = h.key_hint],
                 h.rest, load_terms_yaml(file))

terms(file, line) == terms_headed(file, line, parse_head(line))

(***************************************************************************)
(* The requests and the template resources the model draws from.           *)
(***************************************************************************)
P(key) == Braced(<<key>>)
\* a placeholder written with whitespace inside its braces
PSp(key) == <<"{", "{", " ", key, " ", "}", "}">>

\* the text of each section of the sectioned families
SectionText(s) ==
    CASE s \in {"h", "h2", "trh"} -> <<"#", " ">> \o P("Term") \o <<" ", s>>
      [] s \in {"ex", "ex2", "tree"} -> <<s, " ">> \o PSp("FunctionName") \o <<" ">>
      [] s \in {"tc", "tc2", "trt"} -> <<s, " ">> \o P("AverageCase") \o PSp("Zed")
      [] s \in {"fo", "fo2", "trf"} -> <<s, "\n">>
      [] OTHER -> <<s, " ">> \o P("Note1")

Pair(k, v) == [k |-> k, v |-> v]

RECURSIVE Sections(_)
Sections(names) ==
    IF names = <<>> THEN <<>>
    ELSE <<Pair(Head(names), Str(SectionText(Head(names))))>> \o Sections(Tail(names))

\* The shapes of a sectioned family.  Its optional section is a string, null or
\* missing; beside it the family holds its base sections and its footer, or
\* nothing else; one more shape has the optional section and no footer.
FamilyShapes(base, opt, foot) ==
    {Dict((IF full THEN Sections(base) ELSE <<>>) \o o
              \o (IF full THEN Sections(<<foot>>) ELSE <<>>)) :
        full \in BOOLEAN, o \in {<<>>, Sections(<<opt>>), <<Pair(opt, None)>>}}
        \cup {Dict(Sections(base) \o Sections(<<opt>>))}

FlatText(k) == <<k, ":", " ">> \o P("Term") \o <<" ">> \o PSp("Term") \o P("Zed") \o <<" ", "\n">>

\* the values a key of the resource may hold
ValuesOf(k) ==
    CASE k = "template" -> {Str(FlatText(k)), None}
      [] k = "template_term" ->
             FamilyShapes(<<"h", "ex", "n">>, "tc", "fo") \cup {Str(FlatText(k)), None}
      [] k = "template_math" -> {Str(FlatText(k)), Dict(Sections(<<"h">>))}
      [] k = "template_diagram" ->
             FamilyShapes(<<"h2", "di", "n2", "ex2">>, "tc2", "fo2")
                 \cup {Str(<<"tc2", " ">> \o P("Term")), None}
      [] k = "template_tree" ->
             {Dict(Sections(order_tree_all)), Dict(Sections(order_tree)),
              Dict(Sections(<<"trh", "trd", "trp", "tra", "tree", "trt">>)),
              Dict(<<>>), None}
      [] OTHER -> {Str(FlatText(k))}

ResourceKeys ==
    <<"template", "template_term", "template_math",
      "template_diagram", "template_tree", "title">>

\* the mappings that hold at most n of the keys, in the order of keys
RECURSIVE Mappings(_, _)
Mappings(keys, n) ==
    IF keys = <<>> \/ n = 0 THEN {<<>>}
    ELSE Mappings(Tail(keys), n)
         \cup {<<Pair(Head(keys), v)>> \o m :
                  v \in ValuesOf(Head(keys)), m \in Mappings(Tail(keys), n - 1)}

YamlFiles ==
    {[exists |-> FALSE, data |-> <<>>]}
        \cup {[exists |-> TRUE, data |-> m] : m \in Mappings(ResourceKeys, MaxKeys)}

HeadWords ==
    {<<>>, <<"t1">>, <<"t2">>, <<"t4">>, <<"t5">>, <<"h">>, <<"h2">>, <<"trt">>}

SubjectWords == <<"Vector", "Matrix", "Graph", "Tree">>

\* the subject lists: the first n subjects, written tightly or with blanks around
\* the commas; a list of blank pieces only
SubjectArgs ==
    {join(<<",">>, [i \in 1..n |-> <<SubjectWords[i]>>]) : n \in 1..MaxSubjects}
        \cup {join(<<" ", ",", " ">>, [i \in 1..n |-> <<SubjectWords[i]>>]) :
                 n \in 2..MaxSubjects}
        \cup {<<",", " ", ",">>}

CountArgs ==
    {<<Digits[c + 1]>> : c \in 0..MaxCount} \cup {<<"0", "0">>, <<"-", "2">>, <<"²">>}

Flags == {<<>>, <<"tc">>}

\* the words of a line, one blank between them
Glue(words) == join(<<" ">>, StripNonEmpty(words))

Lines ==
    {Glue(<<h, a, f>>) : h \in HeadWords, a \in SubjectArgs \cup CountArgs \cup {<<>>}, f \in Flags}
        \cup {<<" ", "t4", " ", " ", "Vector", " ">>,
              <<"T4", " ", "Vector", " ", "TC">>,
              <<"t3", " ", "Vector">>,
              <<"H", " ", "Red", " ", " ", "Black", " ", "tc">>,
              <<"Red", " ", " ", "Black", ",", "Tree">>}

(***************************************************************************)
(* The state machine: one %terms request against one template resource.    *)
(***************************************************************************)
\* no pipeline and no %cp_jup_temp is running
NoArgs == [notebooks |-> 0, notebook |-> "", bigmem |-> FALSE]
NoCp == [line |-> <<>>, available |-> FALSE, found |-> FALSE, fails |-> 0]
OthersIdle == args = NoArgs /\ runs = <<>> /\ cp = NoCp /\ files = {}

Init ==
    /\ OthersIdle
    /\ yaml \in YamlFiles
    /\ pc = "idle"
    /\ loc = NoLocals
    /\ sink = <<>>
    /\ printed = <<>>
    /\ outcome = "none"
    /\ rTemplate = <<>>
    /\ rMapping = <<>>
    /\ rOut = <<>>

\* the request ended as r says
Ends(r) ==
    /\ outcome' = r.outcome
    /\ loc' = r.loc
    /\ sink' = sink \o r.sink
    /\ printed' = printed \o r.printed

Terms(line) ==
    /\ pc = "idle"
    /\ Ends(terms(yaml, line))
    /\ pc' = "done"
    /\ UNCHANGED <<yaml, rTemplate, rMapping, rOut, args, runs, cp, files>>

Next == \E line \in Lines : Terms(line)

Spec == Init /\ [][Next]_vars

(***************************************************************************)
(* _render on its own: every template of at most MaxTemplateLen atoms,     *)
(* under the mappings terms() builds.                                      *)
(***************************************************************************)
RenderAtoms == {"{", "}", " ", "Term", "Zed"}

Templates == UNION {[1..n -> RenderAtoms] : n \in 0..MaxTemplateLen}

\* the blank mapping, and the mappings of the subjects "Vector" and "{{ Zed }}"
RenderMappings ==
    {blank_mapping, term_mapping(<<"Vector">>), term_mapping(PSp("Zed"))}

NoFile == [exists |-> FALSE, data |-> <<>>]

InitRender ==
    /\ OthersIdle
    /\ rTemplate \in Templates
    /\ rMapping \in RenderMappings
    /\ rOut = <<>>
    /\ yaml = NoFile
    /\ pc = "idle"
    /\ loc = NoLocals
    /\ sink = <<>>
    /\ printed = <<>>
    /\ outcome = "none"

Render ==
    /\ rOut = <<>>
    /\ rOut' = <<render(rTemplate, rMapping)>>
    /\ UNCHANGED <<yaml, pc, loc, sink, printed, outcome, rTemplate, rMapping>>
    /\ UNCHANGED <<args, runs, cp, files>>

\* the rendered text is rendered once more, with the same mapping
Rerender ==
    /\ Len(rOut) = 1
    /\ rOut' = rOut \o <<render(rOut[1], rMapping)>>
    /\ UNCHANGED <<yaml, pc, loc, sink, printed, outcome, rTemplate, rMapping>>
    /\ UNCHANGED <<args, runs, cp, files>>

NextRender == Render \/ Rerender

SpecRender == InitRender /\ [][NextRender]_vars
(***************************************************************************)
(* dir_ipynb_to_md.main: the sync, the conversion of each notebook, the    *)
(* fence rewriting and the import, one after the other.  runs holds every  *)
(* step that was started, with the exit code of its process (for the fence *)
(* rewriting, which runs no process: 0 when it returned, 1 when it raised).*)
(***************************************************************************)
ExitCodes == {0, 1}

\* argparse: -n is left out, given empty, or given with a name
NotebookArgs == {"<None>", "", "Notes"}
\* if args.notebook
Truthy(notebook) == notebook \notin {"<None>", ""}

Step(cmd, code, env) == [cmd |-> cmd, code |-> code, env |-> env]

\* a mutation of run_checked: subprocess.run without check=True
run_unchecked(code, then) == then

\* where main is after subprocess.run(..., check=True) ended with code
run_checked(code, then) == IF code = 0 THEN then ELSE "raised"

\* the notebooks nb_to_md_in_place has run nbconvert on
Converted == Cardinality({i \in DOMAIN runs : runs[i].cmd = "nbconvert"})

InitPipeline ==
    /\ args \in [notebooks : 0..MaxNotebooks, notebook : NotebookArgs, bigmem : BOOLEAN]
    /\ runs = <<>>
    /\ pc = "rsync_copy"
    /\ printed = <<>>
    /\ outcome = "none"
    /\ yaml = NoFile /\ loc = NoLocals /\ sink = <<>>
    /\ rTemplate = <<>> /\ rMapping = <<>> /\ rOut = <<>>
    /\ cp = NoCp /\ files = {}

\* what a step leaves alone
PipelineFrame == UNCHANGED <<yaml, loc, sink, rTemplate, rMapping, rOut, args, cp, files>>

\* the position and the outcome after a step that moves main to next
Moves(next, error) ==
    /\ pc' = next
    /\ outcome' = (IF next = "raised" THEN error ELSE outcome)

RsyncCopy ==
    /\ pc = "rsync_copy"
    /\ \E code \in ExitCodes :
           /\ runs' = Append(runs, Step("rsync", code, ""))
           /\ Moves(run_checked(code, "nb_to_md_in_place"), "CalledProcessError")
    /\ UNCHANGED printed
    /\ PipelineFrame

\* one turn of the loop of nb_to_md_in_place
NbToMd ==
    /\ pc = "nb_to_md_in_place"
    /\ Converted < args.notebooks
    /\ \E code \in ExitCodes :
           /\ runs' = Append(runs, Step("nbconvert", code, ""))
           /\ Moves(run_checked(code, "nb_to_md_in_place"), "CalledProcessError")
    /\ UNCHANGED printed
    /\ PipelineFrame

\* the loop of nb_to_md_in_place has ended; fix_fences returns or raises
FixFences ==
    /\ pc = "nb_to_md_in_place"
    /\ Converted = args.notebooks
    /\ \E code \in ExitCodes :
           /\ runs' = Append(runs, Step("fix_fences", code, ""))
           /\ Moves(IF code = 0 THEN "import" ELSE "raised", "OSError")
    /\ UNCHANGED printed
    /\ PipelineFrame

ImportToJoplin ==
    /\ pc = "import"
    /\ Truthy(args.notebook)
    /\ \E code \in ExitCodes :
           /\ runs' = Append(runs, Step("joplin", code,
                                        IF args.bigmem
                                        THEN "NODE_OPTIONS=--max-old-space-size=8192"
                                        ELSE ""))
           /\ Moves(run_checked(code, "done"), "CalledProcessError")
    /\ printed' = (IF pc' = "done" THEN <<"Imported into Joplin notebook">> ELSE printed)
    /\ PipelineFrame

ConvertedOnly ==
    /\ pc = "import"
    /\ ~Truthy(args.notebook)
    /\ printed' = <<"Converted only">>
    /\ pc' = "done"
    /\ UNCHANGED <<runs, outcome>>
    /\ PipelineFrame

NextPipeline == RsyncCopy \/ NbToMd \/ FixFences \/ ImportToJoplin \/ ConvertedOnly

SpecPipeline == InitPipeline /\ [][NextPipeline]_vars

(***************************************************************************)
(* %cp_jup_temp and cptemp.cptemp.                                         *)
(***************************************************************************)
FILENAMES == <<"1.Overview", "1.a", "2.b", "3.c", "4.d", "5.e">>

\* cptemp(subdir) on a disk where the template is found or not, and where
\* os.makedirs (fails = 1) or the copy of file number fails - 1 raises
\* (fails = 0: nothing raises).  ret is the string returned.
cptemp(subdir, found, fails) ==
    IF ~found
    THEN [raised |-> FALSE, ret |-> "Could not find", files |-> {}]
    ELSE IF fails = 1
    THEN [raised |-> TRUE, ret |-> "", files |-> {}]
    ELSE IF fails >= 2
    THEN [raised |-> TRUE, ret |-> "",
          files |-> {[dir |-> subdir, name |-> FILENAMES[i]] : i \in 1..(fails - 2)}]
    ELSE [raised |-> FALSE, ret |-> "Copied template into",
          files |-> {[dir |-> subdir, name |-> FILENAMES[i]] : i \in DOMAIN FILENAMES}]

Said(kind, target) == [kind |-> kind, target |-> target]

\* cp_jup_temp(line): what it prints and the files it leaves
cp_jup_temp(line, available, found, fails) ==
    LET target == strip(line)
        r == cptemp(target, found, fails)
    IN  IF target = <<>>
        THEN [printed |-> <<Said("Please provide a folder name", <<>>)>>, files |-> {}]
        ELSE IF ~available
        THEN [printed |-> <<Said("cptemp module not found", <<>>)>>, files |-> {}]
        ELSE IF r.raised
        THEN [printed |-> <<Said("Error creating notebooks", <<>>)>>, files |-> r.files]
        ELSE [printed |-> <<Said("Created templated notebooks in", target)>>,
              files |-> r.files]

CpLines == {<<>>, <<" ">>, <<"01.Intro">>, <<" ", "01.Intro", " ">>}

InitCp ==
    /\ cp \in [line : CpLines, available : BOOLEAN, found : BOOLEAN,
                fails : 0..(Len(FILENAMES) + 1)]
    /\ files = {}
    /\ pc = "idle"
    /\ printed = <<>>
    /\ outcome = "none"
    /\ yaml = NoFile /\ loc = NoLocals /\ sink = <<>>
    /\ rTemplate = <<>> /\ rMapping = <<>> /\ rOut = <<>>
    /\ args = NoArgs /\ runs = <<>>

CpJupTemp ==
    /\ pc = "idle"
    /\ LET r == cp_jup_temp(cp.line, cp.available, cp.found, cp.fails)
       IN  /\ printed' = printed \o r.printed
           /\ files' = files \cup r.files
    /\ pc' = "done"
    /\ UNCHANGED <<yaml, loc, sink, outcome, rTemplate, rMapping, rOut, args, runs, cp>>

NextCp == CpJupTemp

SpecCp == InitCp /\ [][NextCp]_vars
(***************************************************************************)
(* Properties.                                                             *)
(***************************************************************************)
\* the request composed its blocks and handed them to the sink
Rendered == pc = "done" /\ outcome \in {"ok", "TypeError"}

\* t holds the atoms of p from index i on
At(t, i, p) ==
    /\ i + Len(p) - 1 <= Len(t)
    /\ p = <<>> \/ (t[i] = p[1] /\ SubSeq(t, i, i + Len(p) - 1) = p)

\* the ways the model's templates write the placeholder of a key
Spellings(key) == {P(key), PSp(key)}

\* how often t holds a placeholder of one of the keys
Holes(t, keys) ==
    Cardinality({i \in DOMAIN t : \E k \in keys : \E p \in Spellings(k) : At(t, i, p)})

\* how often t holds the text s
Occurrences(t, s) == Cardinality({i \in DOMAIN t : At(t, i, s)})

SubjectKeys == {"Term", "FunctionName"}
\* the keys of the placeholders of the model's templates
TemplateKeys == {"Term", "FunctionName", "Note1", "AverageCase", "Zed"}

\* C1: a request with N subjects yields N blocks, in the order of the subjects;
\* each subject is trimmed, and block i holds subject i wherever the template
\* holds {{Term}} or {{FunctionName}}, and none of these placeholders.
C1_SubjectBlocks ==
    (Rendered /\ loc.terms_list # <<>>) =>
        /\ Len(loc.blocks) = Len(loc.terms_list)
        /\ \A i \in DOMAIN loc.terms_list :
               LET s == loc.terms_list[i]
                   b == loc.blocks[i]
               IN  /\ s # <<>> /\ ~IsSpace(s[1]) /\ ~IsSpace(s[Len(s)])
                   /\ Holes(b, SubjectKeys) = 0
                   /\ Occurrences(b, s)
                          = Occurrences(loc.template_str, s)
                              + Holes(loc.template_str, SubjectKeys)
                   /\ b = rstrip(render(loc.template_str,
                                        <<"Term">> :> s @@ <<"FunctionName">> :> s))

\* C1 witness: two subjects, the second one Matrix, rendered into a stitched
\* template_term that holds both placeholders
C1_Witness ==
    /\ outcome = "ok"
    /\ Len(loc.terms_list) = 2
    /\ loc.terms_list[2] = <<"Matrix">>
    /\ loc.via = "template_term"
    /\ Holes(loc.template_str, {"Term"}) > 0
    /\ Holes(loc.template_str, {"FunctionName"}) > 0

\* the mapping of a request that substitutes nothing
NoMapping == <<>>

\* the sum of the lengths of the first n blocks
RECURSIVE TotalLen(_, _)
TotalLen(blocks, n) == IF n = 0 THEN 0 ELSE TotalLen(blocks, n - 1) + Len(blocks[n])

\* the blocks lie in text one after the other, a double newline after each but
\* the last, and nothing else
SeparatedBy2(text, blocks) ==
    /\ Len(text) = TotalLen(blocks, Len(blocks)) + 2 * (Len(blocks) - 1)
    /\ \A j \in DOMAIN blocks :
           LET start == TotalLen(blocks, j - 1) + 2 * (j - 1)
           IN  /\ At(text, start + 1, blocks[j])
               /\ j < Len(blocks) =>
                      At(text, start + Len(blocks[j]) + 1, <<"\n", "\n">>)

\* C2: a request with no subject and repeat count k > 0 yields k blocks, each
\* the template with every placeholder left as its blank marker; the text handed
\* over holds them with k - 1 separators; the bare request "k" yields k blocks.
C2_BlankBlocks ==
    (Rendered /\ loc.terms_list = <<>>) =>
        /\ loc.count > 0
        /\ Len(loc.blocks) = loc.count
        /\ \A i \in DOMAIN loc.blocks : loc.blocks[i] = loc.blocks[1]
        /\ loc.blocks[1] = rstrip(render(loc.template_str, NoMapping))
        /\ \A k \in TemplateKeys :
               Holes(loc.blocks[1], {k}) = Holes(loc.template_str, {k})
        /\ Len(sink) = 1
        /\ SeparatedBy2(sink[1], loc.blocks)
        /\ \A k \in 1..MaxCount : loc.line = <<Digits[k + 1]>> => Len(loc.blocks) = k

\* C2 witness: the bare request of MaxCount blocks
C2_Witness ==
    /\ outcome = "ok"
    /\ loc.line = <<Digits[MaxCount + 1]>>
    /\ Len(loc.blocks) = MaxCount
    /\ Holes(loc.template_str, SubjectKeys) > 0

\* s writes an integer <= 0: zeros only, or a minus sign before digits
NonPositiveNumber(s) ==
    \/ isdigit(s) /\ ~int_raises(s) /\ int(s) = 0
    \/ Len(s) >= 2 /\ s[1] = "-" /\ isdigit(Tail(s))

\* C3 (as claimed; stated for a resource that holds a flat 'template'): a request
\* whose argument is a repeat count <= 0, zero or negative, yields no block,
\* hands nothing to the sink and ends with the NothingToInsert outcome.
C3_NonPositiveCount ==
    (pc = "done" /\ yaml.exists /\ IsStr(Get(yaml.data, "template"))
        /\ NonPositiveNumber(loc.rest_wo_toggle)) =>
        /\ outcome = "nothing"
        /\ loc.blocks = <<>>
        /\ sink = <<>>
        /\ printed = <<NothingToInsert>>
(***************************************************************************)
(* Properties of the template resolution.                                  *)
(***************************************************************************)
\* the texts of the sections of sect named by names that are strings, in order
RECURSIVE TextsOf(_, _)
TextsOf(sect, names) ==
    IF names = <<>> THEN <<>>
    ELSE (IF \E i \in DOMAIN sect : sect[i].k = Head(names) /\ sect[i].v.type = "str"
          THEN <<Get(sect, Head(names)).text>> ELSE <<>>)
         \o TextsOf(sect, Tail(names))

\* the texts, one newline between them
RECURSIVE Lined(_)
Lined(texts) ==
    IF texts = <<>> THEN <<>>
    ELSE IF Len(texts) = 1 THEN texts[1]
    ELSE texts[1] \o <<"\n">> \o Lined(Tail(texts))

EndsWith(t, p) == Len(p) <= Len(t) /\ SubSeq(t, Len(t) - Len(p) + 1, Len(t)) = p

\* the sections of a family in the library
SectionsOf(family) == Get(yaml.data, family).sect
HasText(family, s) == IsStr(Get(SectionsOf(family), s))

\* C4 (as claimed): whenever the template of a request that names no section is
\* stitched from the sections of template_term, it holds the section tc, right
\* before the footer fo, if tc is a string of the library and the request
\* carried the tc flag, and no tc text otherwise.
C4_TcOnlyOnRequest ==
    (Rendered /\ loc.section_hint = "" /\ loc.via = "template_term") =>
        loc.template_str =
            Lined(TextsOf(SectionsOf("template_term"),
                          IF loc.include_tc_term
                          THEN <<"h", "ex", "n", "tc", "fo">>
                          ELSE <<"h", "ex", "n", "fo">>))

\* the argument is a digit string that the integer conversion rejects
BadCount == isdigit(loc.rest_wo_toggle) /\ int_raises(loc.rest_wo_toggle)

Footer(family) == IF family = "template_diagram" THEN "fo2" ELSE "trf"
Optional(family) ==
    CASE family = "template_term" -> "tc"
      [] family = "template_diagram" -> "tc2"
      [] family = "template_tree" -> "trt"

\* the optional section's text and, when the footer is a string, a newline and
\* the footer's text
OptionalThenFooter(family) ==
    Get(SectionsOf(family), Optional(family)).text
        \o (IF HasText(family, Footer(family))
            THEN <<"\n">> \o Get(SectionsOf(family), Footer(family)).text
            ELSE <<>>)

\* C5: a t4 / t5 request whose family (template_diagram / template_tree) is a
\* sectioned mapping with its optional section (tc2 / trt) a string fails only
\* in the conversion of its count; unless it ends so or with NothingToInsert,
\* its template is stitched from the family and ends with the optional section
\* followed only by the footer, flag or not.
C5_AlwaysIncluded ==
    \A family \in {"template_diagram", "template_tree"} :
        (pc = "done" /\ loc.section_hint = "" /\ loc.key_hint = family
            /\ IsDict(Get(yaml.data, family)) /\ HasText(family, Optional(family))) =>
            /\ outcome \in (IF BadCount THEN {"ValueError"} ELSE {"ok", "nothing"})
            /\ outcome = "ok" =>
                   /\ loc.via = family
                   /\ EndsWith(loc.template_str, OptionalThenFooter(family))

\* C5 witness: t4 without the flag on a template_diagram that holds tc2 and fo2
C5_Witness ==
    /\ outcome = "ok"
    /\ loc.key_hint = "template_diagram"
    /\ ~loc.include_tc_term
    /\ IsDict(Get(yaml.data, "template_diagram"))
    /\ HasText("template_diagram", "tc2")
    /\ HasText("template_diagram", "fo2")
    /\ HasText("template_diagram", "h2")

BaseOrder(family) ==
    CASE family = "template_term" -> <<"h", "ex", "n", "fo">>
      [] family = "template_diagram" -> <<"h2", "di", "n2", "ex2", "fo2">>
      [] family = "template_tree" -> <<"trh", "trd", "trp", "tra", "tree", "trf">>

\* C6: whenever a template is stitched from a sectioned family whose optional
\* section is missing or no string, the template is the family's other sections
\* in their composition order, whether or not the request carried the tc flag.
C6_AbsentOptional ==
    \A family \in {"template_term", "template_diagram", "template_tree"} :
        (Rendered /\ loc.via = family /\ ~HasText(family, Optional(family))) =>
            loc.template_str = Lined(TextsOf(SectionsOf(family), BaseOrder(family)))

\* C6 witness: the flag is given and tc is null in template_term
C6_Witness ==
    /\ outcome = "ok"
    /\ loc.via = "template_term"
    /\ loc.include_tc_term
    /\ Has(SectionsOf("template_term"), "tc")
    /\ ~HasText("template_term", "tc")
    /\ HasText("template_term", "h")
    /\ HasText("template_term", "fo")
\* the family that owns a section short-name
OwnerOf(section) ==
    IF section \in {"h", "ex", "n", "fo"} THEN "template_term"
    ELSE IF section \in {"h2", "di", "n2", "ex2", "fo2"} THEN "template_diagram"
    ELSE "template_tree"

\* the section of the request is a string of the family that owns its name
SectionThere ==
    /\ IsDict(Get(yaml.data, OwnerOf(loc.section_hint)))
    /\ HasText(OwnerOf(loc.section_hint), loc.section_hint)

SectionText1 == Get(SectionsOf(OwnerOf(loc.section_hint)), loc.section_hint).text

\* C7 (as claimed): a request whose first word is a section short-name renders
\* with exactly the string of that section of the family that owns the name;
\* if the section is missing or no string, the request fails.
C7_SectionOnly ==
    (pc = "done" /\ yaml.exists /\ loc.section_hint # "") =>
        IF SectionThere
        THEN /\ outcome \in {"ok", "nothing"}
             /\ outcome = "ok" => loc.via = "section" /\ loc.template_str = SectionText1
        ELSE outcome = "ValueError"

ZeroCount ==
    /\ isdigit(loc.rest_wo_toggle)
    /\ ~int_raises(loc.rest_wo_toggle)
    /\ int(loc.rest_wo_toggle) = 0

\* C7 (amended): a request whose first word is a section short-name and whose
\* argument is no zero count renders with exactly the string of that section of
\* the family that owns the name, and fails if the section is missing or no
\* string (it renders unless the conversion of its count fails); with a zero
\* count it ends with NothingToInsert, section or not.
C7_SectionOnlyUnlessZero ==
    (pc = "done" /\ yaml.exists /\ loc.section_hint # "") =>
        IF ZeroCount THEN outcome = "nothing"
        ELSE IF SectionThere
        THEN /\ outcome = (IF BadCount THEN "ValueError" ELSE "ok")
             /\ outcome = "ok" => loc.via = "section" /\ loc.template_str = SectionText1
        ELSE outcome = "ValueError"

\* C7 witness: "H ... tc" on a template_term that holds h and other sections
C7_Witness ==
    /\ outcome = "ok"
    /\ loc.line # <<>> /\ loc.line[1] = "H"
    /\ loc.section_hint = "h"
    /\ loc.include_tc_term
    /\ HasText("template_term", "ex")
    /\ HasText("template_term", "tc")
    /\ loc.template_str = Get(SectionsOf("template_term"), "h").text

\* C8 (as claimed): a request that fails hands nothing to the sink and prints
\* no status.
C8_FailureInsertsNothing ==
    (pc = "done" /\ outcome \notin {"ok", "nothing"}) => sink = <<>> /\ printed = <<>>

\* t rendered with every placeholder whose key is in the mapping replaced by its
\* value and everything else, the other placeholders too, copied as it is
RECURSIVE VerbatimFrom(_, _, _)
VerbatimFrom(t, mapping, i) ==
    IF i > Len(t) THEN <<>>
    ELSE LET e == MatchEnd(t, i)
             key == strip(SubSeq(t, i + 2, e - 2))
         IN  IF e = 0 THEN <<t[i]>> \o VerbatimFrom(t, mapping, i + 1)
             ELSE (IF key \in DOMAIN mapping THEN mapping[key] ELSE SubSeq(t, i, e))
                  \o VerbatimFrom(t, mapping, e + 1)

\* C9 (as claimed): _render replaces the placeholders whose key is in the mapping
\* by the mapped value and leaves all other text, the placeholders of other keys
\* with the whitespace inside their braces too, as it was.
C9_UnknownUntouched ==
    rOut # <<>> => rOut[1] = VerbatimFrom(rTemplate, rMapping, 1)

\* C10 (as claimed): the text handed to the sink is the blocks joined by a double
\* newline, trailing-trimmed and ended by one newline.
C10_TrailingNewline ==
    Rendered =>
        /\ Len(sink) = 1
        /\ sink[1] # <<>>
        /\ sink[1][Len(sink[1])] = "\n"
        /\ SeparatedBy2(rstrip(sink[1]), loc.blocks)

\* C10 (amended): the text handed to the sink, in one call, is the blocks, each
\* trailing-trimmed, joined by a double newline and nothing more: it ends with
\* the last atom of the last block, not with a newline.
C10_FinalText ==
    Rendered =>
        /\ Len(sink) = 1
        /\ loc.blocks # <<>>
        /\ SeparatedBy2(sink[1], loc.blocks)
        /\ \A i \in DOMAIN loc.blocks : loc.blocks[i] = rstrip(loc.blocks[i])
        /\ loc.blocks[Len(loc.blocks)] # <<>> => ~IsSpace(sink[1][Len(sink[1])])

\* C10 witness: two blocks of a template that ends with whitespace
C10_Witness ==
    /\ outcome = "ok"
    /\ Len(loc.blocks) = 2
    /\ loc.template_str # <<>>
    /\ IsSpace(loc.template_str[Len(loc.template_str)])
    /\ Len(sink[1]) = Len(loc.blocks[1]) + 2 + Len(loc.blocks[2])
(***************************************************************************)
(* Properties of the count / subject argument.                             *)
(***************************************************************************)
\* the atoms of s that are neither whitespace nor commas, in order
RECURSIVE Kept(_)
Kept(s) ==
    IF s = <<>> THEN <<>>
    ELSE (IF IsSpace(Head(s)) \/ Head(s) = "," THEN <<>> ELSE <<Head(s)>>) \o Kept(Tail(s))

\* the places of s where a piece between commas starts to hold text
PieceStarts(s) ==
    {i \in DOMAIN s :
        /\ ~IsSpace(s[i]) /\ s[i] # ","
        /\ \E j \in 0..(i - 1) :
               /\ j = 0 \/ s[j] = ","
               /\ \A k \in (j + 1)..(i - 1) : IsSpace(s[k])}

\* the atoms of all subjects, in order
RECURSIVE Flat(_)
Flat(list) == IF list = <<>> THEN <<>> ELSE Head(list) \o Flat(Tail(list))

\* the digits of the argument read as a number
RECURSIVE NumberOf(_)
NumberOf(s) ==
    IF s = <<>> THEN 0
    ELSE 10 * NumberOf(SubSeq(s, 1, Len(s) - 1))
         + (IF IsDecimal(s[Len(s)]) THEN DigitVal(s[Len(s)]) ELSE 2)

\* C11 (as claimed): an argument of digits only is taken as the repeat count,
\* with no subjects; any other argument is split on commas, each piece trimmed
\* and the empty pieces dropped, in input order; an argument without any
\* subject text yields no subject and exactly one blank block.
C11_CountOrSubjects ==
    (pc = "done" /\ yaml.exists) =>
        IF isdigit(loc.rest_wo_toggle)
        THEN /\ loc.error # "invalid literal for int() with base 10"
             /\ loc.terms_list = <<>>
             /\ loc.count = NumberOf(loc.rest_wo_toggle)
             /\ Rendered => Len(loc.blocks) = loc.count
        ELSE /\ Len(loc.terms_list) = Cardinality(PieceStarts(loc.rest_wo_toggle))
             /\ Kept(Flat(loc.terms_list)) = Kept(loc.rest_wo_toggle)
             /\ \A i \in DOMAIN loc.terms_list :
                    LET t == loc.terms_list[i]
                    IN  /\ t # <<>> /\ ~IsSpace(t[1]) /\ ~IsSpace(t[Len(t)])
                        /\ \A k \in DOMAIN t : t[k] # ","
             /\ (Rendered /\ Kept(loc.rest_wo_toggle) = <<>>) => Len(loc.blocks) = 1

\* the request line without its last word and the whitespace before it
Unflagged(line) ==
    LET l == strip(line)
        w == split_ws(l)
    IN  IF w = <<>> THEN l ELSE rstrip(SubSeq(l, 1, Len(l) - Len(w[Len(w)])))

\* the request names a family that always includes its optional section (t4,
\* t5) or a flat family (t2, t3), or one section
FlagFreeRequest ==
    \/ loc.section_hint # ""
    \/ loc.key_hint \in {"template_math", "template_func", "template_diagram", "template_tree"}

\* C12 (as claimed): on an always-include family, a flat family or a section,
\* the request that ends with the word tc has the flag removed from its argument
\* and yields the blocks, and hands over the text, of the same request without
\* that word.
C12_FlagIsFrame ==
    (pc = "done" /\ yaml.exists /\ loc.include_tc_term /\ FlagFreeRequest) =>
        /\ loc.rest_wo_toggle = <<>> \/ loc.rest_wo_toggle[Len(loc.rest_wo_toggle)] # "tc"
        /\ terms(yaml, Unflagged(loc.line)).loc.blocks = loc.blocks
        /\ terms(yaml, Unflagged(loc.line)).sink = sink
(***************************************************************************)
(* Properties of repeated and of single-pass rendering.                    *)
(***************************************************************************)
\* C13: rendering a template with the all-blank mapping and rendering the
\* result again with the all-blank mapping gives the text of the first
\* rendering.
C13_BlankIdempotent ==
    (Len(rOut) = 2 /\ rMapping = blank_mapping) => rOut[2] = rOut[1]

\* C13 witness: a template whose placeholder the first rendering rewrites
\* (the whitespace inside its braces goes), rendered twice
C13_Witness ==
    /\ Len(rOut) = 2
    /\ rMapping = blank_mapping
    /\ rOut[1] # rTemplate
    /\ Holes(rOut[1], {"Term"}) > 0

\* an atom that no template and no subject holds
Marker == "<subject>"

\* the mapping with the marker in the place of the subject
marked_mapping(mapping) ==
    [key \in DOMAIN mapping |->
        IF key \in {<<"Term">>, <<"FunctionName">>} THEN <<Marker>> ELSE mapping[key]]

\* text with every marker replaced by the atoms of s
RECURSIVE Expand(_, _)
Expand(text, s) ==
    IF text = <<>> THEN <<>>
    ELSE (IF Head(text) = Marker THEN s ELSE <<Head(text)>>) \o Expand(Tail(text), s)

\* the mapping of a request with a subject
IsTermMapping(mapping) == mapping[<<"Term">>] = mapping[<<"FunctionName">>]

\* C15: the rendered text is the text rendered with an opaque marker for the
\* subject, the marker then replaced by the subject as it is: what a
\* replacement brings in, placeholder-like text too, is not substituted again.
C15_SinglePass ==
    (rOut # <<>> /\ IsTermMapping(rMapping)) =>
        rOut[1] = Expand(render(rTemplate, marked_mapping(rMapping)), rMapping[<<"Term">>])

\* C15 witness: the subject "{{ Zed }}" stands in the rendered text, in the
\* place of a {{Term}} placeholder of the template
C15_Witness ==
    /\ rOut # <<>>
    /\ rMapping[<<"Term">>] = PSp("Zed")
    /\ Holes(rTemplate, {"Term"}) > 0
    /\ Occurrences(rOut[1], PSp("Zed")) > Occurrences(rTemplate, PSp("Zed"))
(***************************************************************************)
(* Properties of a sectioned family without string sections.               *)
(***************************************************************************)
\* the family the request asks for: the one its first word names, or
\* template_term by default
Requested == default_key_hint(yaml.data, loc.key_hint)

\* the sections the request composes: the optional section of template_term
\* only with the flag
CompositionOrder(family) ==
    IF family = "template_term" /\ ~loc.include_tc_term
    THEN BaseOrder(family)
    ELSE order_map(family)

EmptyError(family) ==
    CASE family = "template_term" -> "template_term is empty or missing sections"
      [] family = "template_diagram" -> "template_diagram is empty or missing sections"
      [] family = "template_tree" -> "template_tree is empty or missing sections"

\* the request asks for a sectioned family none of whose sections is a string
EmptyFamilyRequest ==
    /\ pc = "done" /\ yaml.exists /\ loc.section_hint = ""
    /\ Requested \in {"template_term", "template_diagram", "template_tree"}
    /\ IsDict(Get(yaml.data, Requested))
    /\ TextsOf(SectionsOf(Requested), CompositionOrder(Requested)) = <<>>

\* C14 (as claimed): a request for a sectioned family none of whose sections is
\* a string fails with the family's empty-sections error; it hands nothing over.
C14_EmptySectionsFail ==
    EmptyFamilyRequest =>
        /\ outcome = "ValueError"
        /\ loc.error = EmptyError(Requested)
        /\ sink = <<>>

\* C14 (amended): such a request composes no block, hands nothing over and
\* takes no other template; with a zero count it ends with NothingToInsert,
\* otherwise it fails, with the family's empty-sections error or, when the
\* argument is a digit string the integer conversion rejects, with the error of
\* that conversion.
C14_EmptySectionsNoBlock ==
    EmptyFamilyRequest =>
        /\ sink = <<>>
        /\ loc.blocks = <<>>
        /\ loc.via = "none"
        /\ IF ZeroCount THEN outcome = "nothing" /\ printed = <<NothingToInsert>>
           ELSE /\ outcome = "ValueError"
                /\ printed = <<>>
                /\ loc.error = (IF BadCount THEN "invalid literal for int() with base 10"
                                ELSE EmptyError(Requested))

\* C14 witness: t4 with subjects on a template_diagram that holds only a null
\* tc2, in a library whose flat 'template' is a string
C14_Witness ==
    /\ outcome = "ValueError"
    /\ loc.error = EmptyError("template_diagram")
    /\ loc.key_hint = "template_diagram"
    /\ loc.terms_list # <<>>
    /\ Has(SectionsOf("template_diagram"), "tc2")
    /\ IsStr(Get(yaml.data, "template"))
(***************************************************************************)
(* Properties of the pipeline of dir_ipynb_to_md.                          *)
(***************************************************************************)
\* the place of a step in the pipeline
Rank(cmd) ==
    CASE cmd = "rsync" -> 1
      [] cmd = "nbconvert" -> 2
      [] cmd = "fix_fences" -> 3
      [] cmd = "joplin" -> 4

External(cmd) == cmd \in {"rsync", "nbconvert", "joplin"}

\* C16: the steps start in the order sync, conversions, fence rewriting,
\* import, each but the conversion at most once; the fence rewriting starts
\* after the conversion of every notebook; the import starts only with a
\* notebook name and after the sync and every conversion exited with 0; after
\* a process that exited non-zero no step is started.
C16_PipelineOrder ==
    /\ runs # <<>> => runs[1].cmd = "rsync"
    /\ \A i, j \in DOMAIN runs :
           i < j => /\ Rank(runs[i].cmd) <= Rank(runs[j].cmd)
                    /\ Rank(runs[i].cmd) = Rank(runs[j].cmd) => runs[i].cmd = "nbconvert"
    /\ Converted <= args.notebooks
    /\ \A i \in DOMAIN runs :
           /\ runs[i].cmd \in {"fix_fences", "joplin"} => Converted = args.notebooks
           /\ runs[i].cmd = "joplin" =>
                  /\ Truthy(args.notebook)
                  /\ \A j \in 1..(i - 1) : runs[j].code = 0
                  /\ \E j \in 1..(i - 1) : runs[j].cmd = "fix_fences"
           /\ (External(runs[i].cmd) /\ runs[i].code # 0) => i = Len(runs)
    /\ (\E i \in DOMAIN runs : runs[i].code # 0) => pc = "raised" /\ printed = <<>>

\* C16 witness: a run with MaxNotebooks notebooks that ended with the import
C16_Witness ==
    /\ pc = "done"
    /\ args.notebooks = MaxNotebooks
    /\ Len(runs) = MaxNotebooks + 3
    /\ runs[Len(runs)].cmd = "joplin"
    /\ printed = <<"Imported into Joplin notebook">>

(***************************************************************************)
(* Properties of %cp_jup_temp.                                             *)
(***************************************************************************)
\* the renamed copies of the template in the target directory
AllCopies(target) == {[dir |-> target, name |-> FILENAMES[i]] : i \in DOMAIN FILENAMES}

\* C17 (as claimed): the success message is printed only when the copies were
\* made in the target directory; never when cptemp is unavailable.
C17_SuccessOnlyWhenCopied ==
    (pc = "done" /\ \E i \in DOMAIN printed :
                        printed[i].kind = "Created templated notebooks in") =>
        /\ cp.available
        /\ files = AllCopies(strip(cp.line))
(***************************************************************************)
(* Properties of the status message of %terms.                             *)
(***************************************************************************)
\* the family and the optional section a suffix of the status line speaks of
SuffixFamily(tc_msg) ==
    CASE tc_msg = " with tc" -> "template_term"
      [] tc_msg = " with tc2" -> "template_diagram"
      [] tc_msg = " with trt" -> "template_tree"

\* the text of the optional section of the family is part of the template
OptionalInserted(family) ==
    /\ IsDict(Get(yaml.data, family))
    /\ HasText(family, Optional(family))
    /\ loc.via = family
    /\ \E i \in DOMAIN loc.template_str :
           At(loc.template_str, i, Get(SectionsOf(family), Optional(family)).text)

\* C18 (as claimed): after a successful insertion one status line is printed;
\* its count is the number of blocks handed to the sink, and it carries a
\* suffix only when the text of that optional section is part of the blocks.
C18_StatusFaithful ==
    (pc = "done" /\ outcome = "ok") =>
        /\ Len(printed) = 1
        /\ printed[1].kind = "inserted"
        /\ printed[1].n = Len(loc.blocks)
        /\ SeparatedBy2(sink[1], loc.blocks)
        /\ printed[1].tc_msg # "" => OptionalInserted(SuffixFamily(printed[1].tc_msg))
====
